---- MODULE Spec2Model ----
(***************************************************************************)
(* Model of matomo2umami.py: one run of main() / migrate_matomo_to_umami.  *)
(*                                                                         *)
(* The run is a single-threaded pipeline.  Its steps are the points where  *)
(* the environment supplies something: the command line, the answer of one *)
(* acquisition request, the next visit record of the answer.  One visit is *)
(* transformed in one step (the body of the for loop, lines 453-487),      *)
(* with the in-loop threshold flushes it performs.                         *)
(*                                                                         *)
(* Abstractions:                                                           *)
(*  - dates are day numbers;                                               *)
(*  - md5 is a collision-free digest on the seeds of the model: the digest *)
(*    of a seed is the term [md5 |-> seed];                                *)
(*  - uuid4 draws are pairwise distinct: the k-th draw of a run is the     *)
(*    term [uuid4 |-> k];                                                  *)
(*  - a visit or action record carries, instead of its textual fields, the *)
(*    fact whether transforming it raises an exception;                    *)
(*  - writes to the output stream succeed.                                 *)
(***************************************************************************)
EXTENDS Integers, Sequences, FiniteSets, TLC

\* ---------------------------------------------------------------- bounds
MaxDay == 2          \* dates of the command line are 1..MaxDay
MaxBatch == 2        \* --batch-size is 0..MaxBatch
MaxDaysPerRequest == 2   \* --days-per-request is 0..MaxDaysPerRequest
MaxId == 2           \* source visit ids are 1..MaxId
MaxVisits == 2       \* visit records supplied during one run
MaxActions == 2      \* action records of one visit
MaxRangeDay == 5     \* dates of the runs of the chunk loop are 1..MaxRangeDay
MaxChunkDays == 3    \* their --days-per-request is 0..MaxChunkDays
MaxTextLen == 4      \* length of the strings given to safe_sql_value
MaxInt == 3          \* the integers given to safe_sql_value are 0..MaxInt
MaxUrlLen == 4       \* length of the action urls after their scheme and host
MaxOver == 2         \* a field's text is at most this much longer than its cap

\* ------------------------------------------------------- optional values
None == <<>>
Some(x) == <<x>>
Get(o) == o[1]

\* ------------------------------------------------------------ the inputs
\* An action record: its type tag (None: no 'type' key) and whether
\* create_website_event_data raises on it (a missing timestamp, a url that is
\* not a string, ...).
ActionRecords ==
    { [type |-> Some("action"), wellFormed |-> TRUE],
      [type |-> Some("action"), wellFormed |-> FALSE],
      [type |-> Some("goal"), wellFormed |-> TRUE],
      [type |-> None, wellFormed |-> TRUE] }

ActionLists == UNION { [1..n -> ActionRecords] : n \in 0..MaxActions }

\* A visit record.  isDict = FALSE: an element of the answer that is no JSON
\* object.  idVisit = None: no 'idVisit' key.  wellFormed = FALSE: a field
\* create_session_data needs is missing or of the wrong type.  actionDetails =
\* None: no 'actionDetails' key.
VisitRecords ==
    { [isDict |-> FALSE, idVisit |-> None, wellFormed |-> FALSE, actionDetails |-> None],
      [isDict |-> TRUE, idVisit |-> None, wellFormed |-> FALSE, actionDetails |-> None] }
    \cup
    { [isDict |-> TRUE, idVisit |-> Some(i), wellFormed |-> w, actionDetails |-> a] :
        i \in 1..MaxId, w \in BOOLEAN, a \in {None} \cup { Some(l) : l \in ActionLists } }

ValidWebsiteId == "5f1f1a0e-2b1c-4f7a-9f64-0c1d2e3f4a5b"
WebsiteIds == { ValidWebsiteId, "not-a-uuid" }

\* ------------------------------------------------------------- variables
VARIABLES
    \* the command line (args of main)
    website_id, start_date, end_date, batch_size, days_per_request,
    \* control
    pc, exit_code,
    \* locals of migrate_matomo_to_umami
    total_days, session_mapping, total_events, total_days_processed, failed_days,
    session_batch, event_batch, current_date, batch_end_date, data,
    \* the output file
    file_opened, out,
    \* the entropy source of uuid.uuid4
    uuid4_calls,
    \* history: the acquisition requests made; the rows appended to the buffers,
    \* in order, each with the visit occurrence it was built from; the visit ids
    \* that occurred in the fetched data; the number of visit records handled;
    \* the visit record handled last and how handling it ended
    requests, appended, fetched, visits_seen, last_visit,
    \* one call of a pure function of the module, apart from any run: the
    \* function, its arguments and, once it has returned, its result
    call

vars == << website_id, start_date, end_date, batch_size, days_per_request,
           pc, exit_code, total_days, session_mapping, total_events,
           total_days_processed, failed_days, session_batch, event_batch,
           current_date, batch_end_date, data, file_opened, out, uuid4_calls,
           requests, appended, fetched, visits_seen, last_visit, call >>

\* ------------------------------------------------------ Identity Generator
\* hashlib.md5(seed.encode()).hexdigest(): a collision-free digest.
md5_hexdigest(seed) == [md5 |-> seed]

\* uuid.uuid4(): the k-th draw of the run.
uuid4(k) == [uuid4 |-> k]

\* generate_uuid(seed_value) for a non-empty seed.  The seed f"{prefix}{id}"
\* is the pair of its prefix and the formatted id.
generate_uuid(prefix, id) == [uuid |-> md5_hexdigest(<<prefix, id>>)]

\* uuid.UUID(website_id) does not raise ValueError.
IsValidUuid(w) == w = ValidWebsiteId

\* ------------------------------------------------------------ Batch Writer
Statement(kind, table, rows) == [kind |-> kind, table |-> table, rows |-> rows]

Min(a, b) == IF a <= b THEN a ELSE b

\* The for loop of write_batch_insert from index i (0-based) on: one INSERT
\* statement per slice values_batch[i:i + size].
RECURSIVE WriteSlices(_, _, _, _, _)
WriteSlices(f, table_name, values_batch, size, i) ==
    IF i >= Len(values_batch) THEN f
    ELSE WriteSlices(
             Append(f, Statement("INSERT", table_name,
                                 SubSeq(values_batch, i + 1, Min(i + size, Len(values_batch))))),
             table_name, values_batch, size, i + size)

\* write_batch_insert(output_file, table_name, columns, values_batch, batch_size):
\* the file contents after the call.
write_batch_insert(f, table_name, values_batch, size) ==
    IF values_batch = <<>> THEN f
    ELSE WriteSlices(f, table_name, values_batch, size, 0)

\* --------------------------------------------------------- Record Transformer
\* create_session_data(visit_data, website_id, session_mapping): the mapping is
\* updated first; the row is built afterwards and building it may raise.
create_session_data(visit_data, website, mapping) ==
    LET id == Get(visit_data.idVisit)
        session_id == generate_uuid("session_", id)
        mapping2 == [k \in DOMAIN mapping \cup {id} |->
                        IF k = id THEN session_id ELSE mapping[k]]
    IN [ raised |-> ~visit_data.wellFormed,
         session_mapping |-> mapping2,
         values |-> [session_id |-> session_id, website_id |-> website] ]

\* create_website_event_data with the visit id written into session_id.
create_website_event_data_VisitIdAsSession(action, visit_data, visit_id, website, mapping, k) ==
    [ raised |-> ~action.wellFormed,
      values |-> [event_id |-> uuid4(k + 1),
                  website_id |-> website,
                  session_id |-> visit_id,
                  visit_id |-> visit_id,
                  event_type |-> 1] ]

\* create_website_event_data(action, visit_data, visit_id, website_id,
\* session_mapping); k is the number of uuid4 draws made before the call.
create_website_event_data(action, visit_data, visit_id, website, mapping, k) ==
    [ raised |-> ~action.wellFormed,
      values |-> [event_id |-> uuid4(k + 1),
                  website_id |-> website,
                  session_id |-> mapping[Get(visit_data.idVisit)],
                  visit_id |-> visit_id,
                  event_type |-> 1] ]

\* ------------------------------------------------- the body of the visit loop
\* The state one visit's transformation reads and writes.
RunState == [ session_mapping |-> session_mapping, session_batch |-> session_batch,
              event_batch |-> event_batch, out |-> out, total_events |-> total_events,
              uuid4_calls |-> uuid4_calls, appended |-> appended,
              occurrence |-> [ chunk |-> Len(requests), visit |-> visits_seen + 1,
                               idVisit |-> None ] ]

\* The session buffer without session_batch = [] after the threshold flush.
BufferSessionNoReset(st, values, size) ==
    LET b == Append(st.session_batch, values)
        st2 == [st EXCEPT !.session_batch = b,
                          !.appended = Append(@, [table |-> "session", row |-> values,
                                                  from |-> st.occurrence])]
    IN IF Len(b) >= size
       THEN [st2 EXCEPT !.out = write_batch_insert(@, "session", b, size)]
       ELSE st2

\* session_batch.append(session_values) and the threshold flush after it.
BufferSession(st, values, size) ==
    LET b == Append(st.session_batch, values)
        st2 == [st EXCEPT !.session_batch = b,
                          !.appended = Append(@, [table |-> "session", row |-> values,
                                                  from |-> st.occurrence])]
    IN IF Len(b) >= size
       THEN [st2 EXCEPT !.out = write_batch_insert(@, "session", b, size),
                        !.session_batch = <<>>]
       ELSE st2

\* The event buffer flushed when it exceeds, not when it reaches, the threshold.
BufferEventLateFlush(st, values, size) ==
    LET b == Append(st.event_batch, values)
        st2 == [st EXCEPT !.event_batch = b,
                          !.total_events = @ + 1,
                          !.appended = Append(@, [table |-> "website_event", row |-> values,
                                                  from |-> st.occurrence])]
    IN IF Len(b) > size
       THEN [st2 EXCEPT !.out = write_batch_insert(@, "website_event", b, size),
                        !.event_batch = <<>>]
       ELSE st2

\* event_batch.append(event_values), total_events += 1 and the threshold flush.
BufferEvent(st, values, size) ==
    LET b == Append(st.event_batch, values)
        st2 == [st EXCEPT !.event_batch = b,
                          !.total_events = @ + 1,
                          !.appended = Append(@, [table |-> "website_event", row |-> values,
                                                  from |-> st.occurrence])]
    IN IF Len(b) >= size
       THEN [st2 EXCEPT !.out = write_batch_insert(@, "website_event", b, size),
                        !.event_batch = <<>>]
       ELSE st2

\* The type test passing every action that has a type tag.
IsPageViewAnyType(action) == action.type # None

\* action.get('type') == 'action'
IsPageView(action) == action.type = Some("action")

\* The loop over visit_data['actionDetails'] from its i-th action on.  An
\* exception leaves the loop with what was done before it.
RECURSIVE ProcessActions(_, _, _, _, _, _, _)
ProcessActions(st, actions, i, visit_data, visit_id, website, size) ==
    IF i > Len(actions) THEN [st |-> st, raised |-> FALSE]
    ELSE IF ~IsPageView(actions[i])
         THEN ProcessActions(st, actions, i + 1, visit_data, visit_id, website, size)
         ELSE LET ev == create_website_event_data(actions[i], visit_data, visit_id, website,
                                                  st.session_mapping, st.uuid4_calls)
                  drawn == [st EXCEPT !.uuid4_calls = @ + 1]
              IN IF ev.raised THEN [st |-> drawn, raised |-> TRUE]
                 ELSE ProcessActions(BufferEvent(drawn, ev.values, size), actions, i + 1,
                                     visit_data, visit_id, website, size)

\* The try block of one visit.  raised: an exception reached the handler of the
\* visit.  fatal: the handler itself raised, which ends the run.
ProcessVisit(st, visit_data, website, size) ==
    IF ~visit_data.isDict
    THEN [st |-> st, raised |-> TRUE, fatal |-> TRUE]
    ELSE IF visit_data.idVisit = None
    THEN [st |-> st, raised |-> TRUE, fatal |-> FALSE]
    ELSE
      LET id == Get(visit_data.idVisit)
          isNew == id \notin DOMAIN st.session_mapping
          sd == create_session_data(visit_data, website, st.session_mapping)
          mapped == [st EXCEPT !.session_mapping = sd.session_mapping,
                               !.occurrence.idVisit = visit_data.idVisit]
      IN IF isNew /\ sd.raised
         THEN [st |-> mapped, raised |-> TRUE, fatal |-> FALSE]
         ELSE LET st1 == IF isNew THEN BufferSession(mapped, sd.values, size)
                         ELSE [st EXCEPT !.occurrence.idVisit = visit_data.idVisit]
                  visit_id == generate_uuid("visit_", id)
                  actions == IF visit_data.actionDetails = None THEN <<>>
                             ELSE Get(visit_data.actionDetails)
                  r == ProcessActions(st1, actions, 1, visit_data, visit_id, website, size)
              IN [st |-> r.st, raised |-> r.raised, fatal |-> FALSE]


\* ------------------------------------------------------------------- dates
\* date.today()
Today == 2

\* timedelta(days=2 * 365)
DefaultRangeDays == 730

\* end_date and start_date after the defaults of lines 349-352.
ResolvedEndDate == IF end_date = None THEN Today ELSE Get(end_date)
ResolvedStartDate == IF start_date = None THEN ResolvedEndDate - DefaultRangeDays
                     ELSE Get(start_date)

\* The end of a chunk without the clamp to end_date.
BatchEndDateNoClamp == current_date + (days_per_request - 1)

\* min(current_date + timedelta(days=days_per_request - 1), end_date)
BatchEndDate == Min(current_date + (days_per_request - 1), Get(end_date))

\* (batch_end_date - current_date).days + 1
DaysInBatch(first, last) == (last - first) + 1

\* -------------------------------------------------------------------- Init
\* The run before its first step: nothing counted, buffered, requested or
\* written.
InitRun ==
    /\ pc = "main"
    /\ exit_code = None
    /\ total_days = 0
    /\ session_mapping = <<>>
    /\ total_events = 0
    /\ total_days_processed = 0
    /\ failed_days = 0
    /\ session_batch = <<>>
    /\ event_batch = <<>>
    /\ current_date = 0
    /\ batch_end_date = 0
    /\ data = "unset"
    /\ file_opened = FALSE
    /\ out = <<>>
    /\ uuid4_calls = 0
    /\ requests = <<>>
    /\ appended = <<>>
    /\ fetched = {}
    /\ visits_seen = 0
    /\ last_visit = None

\* The command lines of a run.
Init ==
    /\ website_id \in WebsiteIds
    /\ start_date \in { Some(d) : d \in 1..MaxDay }
    /\ end_date \in {None} \cup { Some(d) : d \in 1..MaxDay }
    /\ batch_size \in 0..MaxBatch
    /\ days_per_request \in 0..MaxDaysPerRequest
    /\ InitRun
    /\ call = None

args == << website_id, batch_size, days_per_request >>
dates == << start_date, end_date >>
counters == << total_events, total_days_processed, failed_days >>
buffers == << session_mapping, session_batch, event_batch, uuid4_calls >>
request_vars == << current_date, batch_end_date, data >>
history == << requests, appended, fetched, visits_seen, last_visit >>

\* sys.exit(1)
Exit1 == pc' = "exited" /\ exit_code' = Some(1)

\* ----------------------------------------------------------------- actions
\* main(): the checks of --batch-size and --days-per-request, then the call of
\* migrate_matomo_to_umami.
MainValidate ==
    /\ pc = "main"
    /\ IF batch_size < 1 \/ days_per_request < 1
       THEN Exit1
       ELSE pc' = "migrate" /\ UNCHANGED exit_code
    /\ UNCHANGED << args, call, dates, total_days, counters, buffers, request_vars,
                    file_opened, out, history >>

\* migrate_matomo_to_umami without the check of the date range.
MigrateValidateNoDateCheck ==
    /\ pc = "migrate"
    /\ IF ~IsValidUuid(website_id)
       THEN Exit1 /\ UNCHANGED << dates, total_days >>
       ELSE /\ end_date' = Some(ResolvedEndDate)
            /\ start_date' = Some(ResolvedStartDate)
            /\ total_days' = (ResolvedEndDate - ResolvedStartDate) + 1
            /\ pc' = "open"
            /\ UNCHANGED exit_code
    /\ UNCHANGED << args, call, counters, buffers, request_vars, file_opened, out, history >>

\* migrate_matomo_to_umami up to total_days: the website id, the default dates,
\* the date range.
MigrateValidate ==
    /\ pc = "migrate"
    /\ IF ~IsValidUuid(website_id)
       THEN Exit1 /\ UNCHANGED << dates, total_days >>
       ELSE /\ end_date' = Some(ResolvedEndDate)
            /\ start_date' = Some(ResolvedStartDate)
            /\ IF ResolvedStartDate > ResolvedEndDate
               THEN Exit1 /\ UNCHANGED total_days
               ELSE /\ total_days' = (ResolvedEndDate - ResolvedStartDate) + 1
                    /\ pc' = "open"
                    /\ UNCHANGED exit_code
    /\ UNCHANGED << args, call, counters, buffers, request_vars, file_opened, out, history >>

\* open(output_file, 'w'), the header with BEGIN, current_date = start_date.
OpenOutput ==
    /\ pc = "open"
    /\ file_opened' = TRUE
    /\ out' = << Statement("BEGIN", "", <<>>) >>
    /\ current_date' = Get(start_date)
    /\ pc' = "loop"
    /\ UNCHANGED << args, call, dates, exit_code, total_days, counters, buffers,
                    batch_end_date, data, history >>

\* A failed request counted as one failed day whatever the size of the chunk.
FetchFailsCountsOneDay ==
    /\ pc = "loop"
    /\ current_date <= Get(end_date)
    /\ requests' = Append(requests, << current_date, BatchEndDate >>)
    /\ batch_end_date' = BatchEndDate
    /\ data' = "None"
    /\ failed_days' = failed_days + 1
    /\ current_date' = BatchEndDate + 1
    /\ UNCHANGED << args, call, dates, pc, exit_code, total_days, total_events,
                    total_days_processed, buffers, file_opened, out,
                    appended, fetched, visits_seen, last_visit >>

\* One turn of the while loop whose request fails: make_matomo_request
\* returns None.
FetchFails ==
    /\ pc = "loop"
    /\ current_date <= Get(end_date)
    /\ requests' = Append(requests, << current_date, BatchEndDate >>)
    /\ batch_end_date' = BatchEndDate
    /\ data' = "None"
    /\ failed_days' = failed_days + DaysInBatch(current_date, BatchEndDate)
    /\ current_date' = BatchEndDate + 1
    /\ UNCHANGED << args, call, dates, pc, exit_code, total_days, total_events,
                    total_days_processed, buffers, file_opened, out,
                    appended, fetched, visits_seen, last_visit >>

\* One turn of the while loop whose request returns decoded JSON that is no
\* list: days_processed_in_batch stays 0.
FetchNotList ==
    /\ pc = "loop"
    /\ current_date <= Get(end_date)
    /\ requests' = Append(requests, << current_date, BatchEndDate >>)
    /\ batch_end_date' = BatchEndDate
    /\ data' = "not a list"
    /\ total_days_processed' = total_days_processed + 0
    /\ current_date' = BatchEndDate + 1
    /\ UNCHANGED << args, call, dates, pc, exit_code, total_days, total_events,
                    failed_days, buffers, file_opened, out,
                    appended, fetched, visits_seen, last_visit >>

\* The request returns a list: the for loop over its visits starts.
FetchList ==
    /\ pc = "loop"
    /\ current_date <= Get(end_date)
    /\ requests' = Append(requests, << current_date, BatchEndDate >>)
    /\ batch_end_date' = BatchEndDate
    /\ data' = "list"
    /\ pc' = "visits"
    /\ UNCHANGED << args, call, dates, exit_code, total_days, counters, buffers,
                    current_date, file_opened, out,
                    appended, fetched, visits_seen, last_visit >>

\* The body of the for loop for the next visit record of the list.
NextVisit ==
    /\ pc = "visits"
    /\ visits_seen < MaxVisits
    /\ \E visit_data \in VisitRecords :
         LET r == ProcessVisit(RunState, visit_data, website_id, batch_size) IN
           /\ session_mapping' = r.st.session_mapping
           /\ session_batch' = r.st.session_batch
           /\ event_batch' = r.st.event_batch
           /\ out' = r.st.out
           /\ total_events' = r.st.total_events
           /\ uuid4_calls' = r.st.uuid4_calls
           /\ appended' = r.st.appended
           /\ fetched' = IF visit_data.isDict /\ visit_data.idVisit # None
                         THEN fetched \cup { Get(visit_data.idVisit) } ELSE fetched
           /\ visits_seen' = visits_seen + 1
           /\ last_visit' = Some([ visit_data |-> visit_data, raised |-> r.raised,
                                   before |-> Len(appended) ])
           /\ IF r.fatal THEN Exit1 ELSE UNCHANGED << pc, exit_code >>
    /\ UNCHANGED << args, call, dates, total_days, total_days_processed, failed_days,
                    request_vars, file_opened, requests >>

\* The list is exhausted: the days of the chunk count as processed.
EndOfList ==
    /\ pc = "visits"
    /\ total_days_processed' = total_days_processed + DaysInBatch(current_date, batch_end_date)
    /\ current_date' = batch_end_date + 1
    /\ pc' = "loop"
    /\ UNCHANGED << args, call, dates, exit_code, total_days, total_events, failed_days,
                    buffers, batch_end_date, data, file_opened, out, history >>

\* The end of the run with COMMIT written before the remaining rows.
FinishCommitsFirst ==
    /\ pc = "loop"
    /\ current_date > Get(end_date)
    /\ out' = write_batch_insert(
                  write_batch_insert(Append(out, Statement("COMMIT", "", <<>>)),
                                     "session", session_batch, batch_size),
                  "website_event", event_batch, batch_size)
    /\ pc' = "done"
    /\ exit_code' = Some(0)
    /\ UNCHANGED << args, call, dates, total_days, counters, buffers, request_vars,
                    file_opened, history >>

\* After the while loop: the remaining rows, COMMIT and the footer.
Finish ==
    /\ pc = "loop"
    /\ current_date > Get(end_date)
    /\ out' = Append(write_batch_insert(
                         write_batch_insert(out, "session", session_batch, batch_size),
                         "website_event", event_batch, batch_size),
                     Statement("COMMIT", "", <<>>))
    /\ pc' = "done"
    /\ exit_code' = Some(0)
    /\ UNCHANGED << args, call, dates, total_days, counters, buffers, request_vars,
                    file_opened, history >>

\* KeyboardInterrupt while the run waits for an acquisition request: the with
\* statement closes the file, no handler writes to it.
Interrupt ==
    /\ pc = "loop"
    /\ current_date <= Get(end_date)
    /\ pc' = "interrupted"
    /\ UNCHANGED << args, call, dates, exit_code, total_days, counters, buffers,
                    request_vars, file_opened, out, history >>

Next ==
    \/ MainValidate
    \/ MigrateValidate
    \/ OpenOutput
    \/ FetchFails
    \/ FetchNotList
    \/ FetchList
    \/ NextVisit
    \/ EndOfList
    \/ Finish
    \/ Interrupt

Spec == Init /\ [][Next]_vars

\* ------------------------------------------------- the chunk loop on its own
\* Runs over longer date ranges in which every list answered is empty.
InitChunks ==
    /\ website_id = ValidWebsiteId
    /\ start_date \in { Some(d) : d \in 1..MaxRangeDay }
    /\ end_date \in { Some(d) : d \in 1..MaxRangeDay }
    /\ batch_size \in 1..MaxBatch
    /\ days_per_request \in 0..MaxChunkDays
    /\ InitRun
    /\ call = None

NextChunks ==
    \/ MainValidate
    \/ MigrateValidate
    \/ OpenOutput
    \/ FetchFails
    \/ FetchNotList
    \/ FetchList
    \/ EndOfList
    \/ Finish

\* The program is sequential and every acquisition request returns (it has a
\* timeout): a step that can be taken is taken.
FairSpecChunks == InitChunks /\ [][NextChunks]_vars /\ WF_vars(NextChunks)

\* ------------------------------------------------- reading the output file
\* The INSERT statements written for a table, in file order.
Statements(table) ==
    SelectSeq(out, LAMBDA stmt : stmt.kind = "INSERT" /\ stmt.table = table)

RECURSIVE Flatten(_)
Flatten(stmts) ==
    IF stmts = <<>> THEN <<>> ELSE Head(stmts).rows \o Flatten(Tail(stmts))

\* The rows written for a table, in file order.
WrittenRows(table) == Flatten(Statements(table))

\* The rows appended to the buffer of a table, in append order.
RECURSIVE RowsOf(_)
RowsOf(entries) ==
    IF entries = <<>> THEN <<>> ELSE << Head(entries).row >> \o RowsOf(Tail(entries))

AppendedRows(table) == RowsOf(SelectSeq(appended, LAMBDA a : a.table = table))

Count(seq, P(_)) == Cardinality({ i \in 1..Len(seq) : P(seq[i]) })

Tables == { "session", "website_event" }

\* ------------------------------------------------------------------ claims

\* C1 (as stated): when COMMIT is written, every source visit id that occurred
\* in the fetched data has exactly one Session row in the output.
C1_ExactlyOneSessionRowPerVisitId ==
    pc = "done" =>
        \A id \in fetched :
            Count(WrittenRows("session"),
                  LAMBDA row : row.session_id = generate_uuid("session_", id)) = 1

\* C2: every Event row built from an occurrence of visit id v carries
\* session_id = generate_uuid("session_" + v) and visit_id =
\* generate_uuid("visit_" + v); every Session row built for v carries that same
\* session_id; so all Event rows of v agree with each other and with the
\* Session row of v.
C2_EventsCarryDerivedIds ==
    \A i \in 1..Len(appended) :
        LET a == appended[i]
            v == Get(a.from.idVisit)
        IN /\ a.row.session_id = generate_uuid("session_", v)
           /\ a.table = "website_event" => a.row.visit_id = generate_uuid("visit_", v)
           /\ a.table = "website_event" =>
                 \A j \in 1..Len(appended) :
                     ( /\ appended[j].table = "session"
                       /\ appended[j].from.idVisit = a.from.idVisit )
                     => appended[j].row.session_id = a.row.session_id

\* C2 witness: two Event rows of the same visit id, built from occurrences in
\* two different chunks, after the Session row of that id.
C2_Witness ==
    \E i, j, k \in 1..Len(appended) :
        /\ appended[i].table = "session"
        /\ appended[j].table = "website_event"
        /\ appended[k].table = "website_event"
        /\ appended[i].from.idVisit = appended[j].from.idVisit
        /\ appended[j].from.idVisit = appended[k].from.idVisit
        /\ appended[j].from.chunk < appended[k].from.chunk

\* C3 (as stated): an Event row is appended only after the Session row it
\* references has been appended.
C3_SessionEnqueuedBeforeEvent ==
    \A i \in 1..Len(appended) :
        appended[i].table = "website_event" =>
            \E j \in 1..(i - 1) :
                /\ appended[j].table = "session"
                /\ appended[j].row.session_id = appended[i].row.session_id

\* C4: when COMMIT is written, the rows of the INSERT statements of each table,
\* concatenated in file order, are the rows appended to its buffer, in order.
C4_WrittenEqualsAppended ==
    pc = "done" => \A t \in Tables : WrittenRows(t) = AppendedRows(t)

\* C4 witness: a finished run whose Event rows went out by a threshold flush
\* and by the final flush.
C4_Witness ==
    /\ pc = "done"
    /\ batch_size = 2
    /\ Len(AppendedRows("website_event")) = 3
    /\ Len(AppendedRows("session")) = 2

CeilDiv(n, d) == (n + d - 1) \div d

\* C5: when COMMIT is written, a table with n appended rows has ceil(n/B)
\* INSERT statements; all but the last hold B rows, the last holds
\* n - B*(ceil(n/B) - 1) rows, none holds more than B rows or none.
C5_StatementSizes ==
    pc = "done" =>
        \A t \in Tables :
            LET n == Len(AppendedRows(t))
                stmts == Statements(t)
                k == CeilDiv(n, batch_size)
            IN /\ Len(stmts) = k
               /\ \A i \in 1..Len(stmts) :
                     /\ Len(stmts[i].rows) >= 1
                     /\ Len(stmts[i].rows) <= batch_size
                     /\ i < Len(stmts) => Len(stmts[i].rows) = batch_size
                     /\ i = Len(stmts) => Len(stmts[i].rows) = n - batch_size * (k - 1)

\* C5 witness: B = 2 and n = 3 Event rows give statements of 2 and 1 rows.
C5_Witness ==
    /\ pc = "done"
    /\ batch_size = 2
    /\ Len(AppendedRows("website_event")) = 3
    /\ Len(Statements("website_event")) = 2
    /\ Len(Statements("website_event")[1].rows) = 2
    /\ Len(Statements("website_event")[2].rows) = 1

\* The rows appended while the visit handled last was transformed.
RowsOfLastVisit(table) ==
    Count(appended, LAMBDA a : a.table = table /\ a.from.visit = visits_seen)

\* C6 (as stated): when transforming a visit raises, no Session row and no
\* Event row of that visit occurrence is emitted, and the run goes on.
C6_RaisingVisitLeavesNoRows ==
    (last_visit # None /\ Get(last_visit).raised) =>
        /\ \A t \in Tables : RowsOfLastVisit(t) = 0
        /\ Len(appended) = Get(last_visit).before
        /\ pc # "exited"

\* C7: a step whose acquisition request returns None adds the days of the
\* requested chunk to failed_days, produces no row, leaves the run in the while
\* loop at the day after the chunk; no day is ever requested twice.
C7_FailedChunkStep ==
    (Len(requests') = Len(requests) + 1 /\ data' = "None") =>
        LET req == requests'[Len(requests')] IN
          /\ failed_days' = failed_days + ((req[2] - req[1]) + 1)
          /\ total_days_processed' = total_days_processed
          /\ appended' = appended
          /\ out' = out
          /\ << session_batch', event_batch', session_mapping' >>
               = << session_batch, event_batch, session_mapping >>
          /\ pc' = "loop"
          /\ current_date' = req[2] + 1
          /\ \A i \in 1..Len(requests) : requests[i][2] < req[1]

C7_FailedChunkCountedAndSkipped == [][C7_FailedChunkStep]_vars

\* C7 witness: the first chunk failed, the run went on and the second chunk
\* was answered.
C7_Witness ==
    /\ Len(requests) = 2
    /\ failed_days = 1
    /\ data = "list"
    /\ pc = "visits"

RECURSIVE SumDays(_)
SumDays(reqs) ==
    IF reqs = <<>> THEN 0 ELSE ((Head(reqs)[2] - Head(reqs)[1]) + 1) + SumDays(Tail(reqs))

\* C8: once the file is open BEGIN is its first statement and occurs once;
\* COMMIT occurs at most once, as the last statement, only when every chunk of
\* the date range has been requested and every appended row is written; a run
\* that stopped otherwise after opening the file has BEGIN and no COMMIT.
C8_TransactionEnvelope ==
    /\ file_opened =>
          /\ Len(out) >= 1
          /\ out[1].kind = "BEGIN"
          /\ Count(out, LAMBDA stmt : stmt.kind = "BEGIN") = 1
    /\ ~file_opened => out = <<>>
    /\ Count(out, LAMBDA stmt : stmt.kind = "COMMIT") <= 1
    /\ Count(out, LAMBDA stmt : stmt.kind = "COMMIT") = 1 =>
          /\ out[Len(out)].kind = "COMMIT"
          /\ pc = "done"
          /\ current_date > Get(end_date)
          /\ SumDays(requests) = total_days
          /\ \A t \in Tables : Len(WrittenRows(t)) = Len(AppendedRows(t))
    /\ pc = "done" => Count(out, LAMBDA stmt : stmt.kind = "COMMIT") = 1
    /\ (pc \in { "interrupted", "exited" } /\ file_opened) =>
          /\ Count(out, LAMBDA stmt : stmt.kind = "BEGIN") = 1
          /\ Count(out, LAMBDA stmt : stmt.kind = "COMMIT") = 0

\* C8 witness: a run interrupted after an INSERT statement was written.
C8_Witness ==
    /\ pc = "interrupted"
    /\ Len(out) >= 2
    /\ out[2].kind = "INSERT"

\* C9: a visit occurrence transformed without exception enqueues as many Event
\* rows as it has actions whose type is "action"; the others, typed otherwise
\* or untyped, add none.
C9_OnlyPageViewsBecomeEvents ==
    (last_visit # None /\ ~Get(last_visit).raised) =>
        LET v == Get(last_visit).visit_data
            actions == IF v.actionDetails = None THEN <<>> ELSE Get(v.actionDetails)
        IN RowsOfLastVisit("website_event")
             = Count(actions, LAMBDA action : action.type = << "action" >>)

\* C9 witness: a visit with an untyped action and a page view gave one Event row.
C9_Witness ==
    /\ last_visit # None
    /\ ~Get(last_visit).raised
    /\ Get(last_visit).visit_data.actionDetails # None
    /\ \E i, j \in 1..Len(Get(Get(last_visit).visit_data.actionDetails)) :
          /\ Get(Get(last_visit).visit_data.actionDetails)[i].type = None
          /\ Get(Get(last_visit).visit_data.actionDetails)[j].type = << "action" >>
    /\ RowsOfLastVisit("website_event") = 1

\* The command line is invalid: the website id is no UUID, the start date is
\* after the end date, or the batch size is below 1.
InvalidConfiguration ==
    \/ website_id # ValidWebsiteId
    \/ batch_size < 1
    \/ ResolvedStartDate > ResolvedEndDate

\* C10: with an invalid configuration the run makes no acquisition request and
\* does not open the output file; it is still validating or has exited with
\* status 1.
C10_InvalidConfigurationIsFatal ==
    InvalidConfiguration =>
        /\ requests = <<>>
        /\ ~file_opened
        /\ out = <<>>
        /\ \/ pc \in { "main", "migrate" }
           \/ pc = "exited" /\ exit_code = << 1 >>

\* C10 witness: a run with valid batch size and website id and an inverted
\* date range has exited with status 1.
C10_Witness ==
    /\ ResolvedStartDate > ResolvedEndDate
    /\ batch_size >= 1
    /\ website_id = ValidWebsiteId
    /\ pc = "exited"
    /\ exit_code = << 1 >>

\* len(session_mapping), the 'Total sessions' value of the footer.
FooterTotalSessions == Cardinality(DOMAIN session_mapping)

\* C15 (as stated): when COMMIT is written, the footer's 'Total sessions' value
\* equals the number of Session rows written in INSERT INTO session statements.
C15_FooterSessionsEqualRowsWritten ==
    pc = "done" => FooterTotalSessions = Len(WrittenRows("session"))

\* C16 (as stated): when COMMIT is written, days processed plus days failed
\* equals the number of days of the requested date range.
C16_ProcessedPlusFailedIsTotal ==
    pc = "done" => total_days_processed + failed_days = total_days

\* The chunks requested so far are contiguous, start at start_date, do not
\* pass end_date and span 1..days_per_request days each.
ChunksContiguous ==
    /\ requests # <<>> => requests[1][1] = Get(start_date)
    /\ \A i \in 1..Len(requests) :
          /\ requests[i][1] <= requests[i][2]
          /\ (requests[i][2] - requests[i][1]) + 1 <= days_per_request
          /\ requests[i][2] <= Get(end_date)
          /\ i > 1 => requests[i][1] = requests[i - 1][2] + 1

\* Every day of the range lies in exactly one requested chunk.
ChunksPartitionRange ==
    /\ requests # <<>>
    /\ requests[Len(requests)][2] = Get(end_date)
    /\ \A d \in Get(start_date)..Get(end_date) :
          Cardinality({ i \in 1..Len(requests) :
                          requests[i][1] <= d /\ d <= requests[i][2] }) = 1
    /\ \A i \in 1..Len(requests) :
          requests[i][1] >= Get(start_date) /\ requests[i][2] <= Get(end_date)

\* start_date <= end_date and days_per_request >= 1
ChunkLoopPrecondition ==
    /\ Get(start_date) <= Get(end_date)
    /\ days_per_request >= 1

\* C17: with start_date <= end_date and days_per_request >= 1 the chunk loop
\* terminates; the chunks requested are contiguous, start at start_date, span
\* at most days_per_request days each, and when the loop has ended they
\* partition the date range.
C17_ChunkLoopTerminatesAndPartitions ==
    /\ [](requests # <<>> => ChunksContiguous)
    /\ [](pc = "done" => ChunksContiguous /\ ChunksPartitionRange)
    /\ (ChunkLoopPrecondition ~> pc = "done")

\* C17 witness: a range of 3 days with 2 days per request was fetched as the
\* chunks 1..2 and 3..3.
C17_Witness ==
    /\ pc = "done"
    /\ days_per_request = 2
    /\ requests = << << 1, 2 >>, << 3, 3 >> >>

\* ------------------------------------------------------------ Field Sanitizer
\* A text is a sequence of characters.  QUOTE is the single quote, NUL is
\* chr(0).
QUOTE == "'"
NUL == "chr(0)"

\* str.replace(old, new) for a one-character old and a text new: every
\* occurrence is replaced, left to right (computed by halves to keep the
\* evaluation shallow on long texts).
RECURSIVE str_replace(_, _, _)
str_replace(text, old, new) ==
    IF text = <<>> THEN <<>>
    ELSE IF Len(text) = 1 THEN (IF text[1] = old THEN new ELSE text)
    ELSE LET half == Len(text) \div 2
         IN str_replace(SubSeq(text, 1, half), old, new)
            \o str_replace(SubSeq(text, half + 1, Len(text)), old, new)

\* Python values by type.  bool is a subclass of int.
PyNone == [type |-> "NoneType"]
PyStr(text) == [type |-> "str", text |-> text]
PyInt(n) == [type |-> "int", int |-> n]
PyBool(b) == [type |-> "bool", bool |-> b]
PyUuid(text) == [type |-> "UUID", repr |-> text]

\* isinstance(value, classes)
isinstance(value, classes) ==
    \/ value.type \in classes
    \/ value.type = "bool" /\ "int" \in classes

\* str(value) of a value that is no str.
str(value) ==
    IF value.type = "bool"
    THEN (IF value.bool THEN << "T", "r", "u", "e" >> ELSE << "F", "a", "l", "s", "e" >>)
    ELSE IF value.type = "int" THEN << ToString(value.int) >>
    ELSE value.repr

\* The str branch without the doubling of quotes.
SqlStringLiteralNulOnly(text) ==
    << QUOTE >> \o str_replace(text, NUL, <<>>) \o << QUOTE >>

\* f"'{value.replace('\'', '\'\'').replace(chr(0), '')}'"
SqlStringLiteral(text) ==
    << QUOTE >> \o str_replace(str_replace(text, QUOTE, << QUOTE, QUOTE >>), NUL, <<>>)
                \o << QUOTE >>

\* safe_sql_value(value): the tests in the order of the code.
safe_sql_value(value) ==
    IF value.type = "NoneType" THEN << "N", "U", "L", "L" >>
    ELSE IF isinstance(value, { "str" }) THEN SqlStringLiteral(value.text)
    ELSE IF isinstance(value, { "int", "float" }) THEN str(value)
    ELSE IF isinstance(value, { "bool" })
         THEN (IF value.bool THEN << "t", "r", "u", "e" >> ELSE << "f", "a", "l", "s", "e" >>)
    ELSE << QUOTE >> \o str(value) \o << QUOTE >>

\* --------------------------------------------------------- text operations
\* text[:n]
Prefix(text, n) == SubSeq(text, 1, Min(Len(text), n))

\* text.startswith(prefix)
startswith(text, prefix) ==
    Len(text) >= Len(prefix) /\ SubSeq(text, 1, Len(prefix)) = prefix

\* pattern in text
contains(text, pattern) ==
    \E i \in 1..(Len(text) - Len(pattern) + 1) :
        SubSeq(text, i, i + Len(pattern) - 1) = pattern

\* The positions of the separator sep in text, in increasing order.
SepPositions(text, sep) ==
    LET at == { i \in 1..Len(text) : text[i] = sep }
        RECURSIVE Sorted(_)
        Sorted(ps) == IF ps = {} THEN <<>>
                      ELSE LET m == CHOOSE x \in ps : \A y \in ps : x <= y
                           IN << m >> \o Sorted(ps \ {m})
    IN Sorted(at)

\* text.split(sep) for a one-character sep: the pieces between separators, one
\* more than there are separators.
str_split(text, sep) ==
    LET ps == SepPositions(text, sep)
        n == Len(ps)
    IN [ k \in 1..(n + 1) |->
           SubSeq(text,
                  (IF k = 1 THEN 0 ELSE ps[k - 1]) + 1,
                  (IF k = n + 1 THEN Len(text) + 1 ELSE ps[k]) - 1) ]

\* sep.join(parts)
RECURSIVE str_join(_, _)
str_join(sep, parts) ==
    IF parts = <<>> THEN <<>>
    ELSE IF Len(parts) = 1 THEN parts[1]
    ELSE parts[1] \o sep \o str_join(sep, Tail(parts))

\* parts[n:]
From(parts, n) == SubSeq(parts, n + 1, Len(parts))

\* ------------------------------------------------------ the fields of an Event
HTTP == << "h", "t", "t", "p" >>

\* The column widths of url_path, url_query, referrer_*, page_title (500) and
\* hostname (100).
UrlCap == 500
HostnameCap == 100

\* create_website_event_data, "Parse URL", "Extract path" and "Hostname
\* extraction", for url = action.get('url', '').  url_query is None or a text.
\* raised: url.split('/')[2] has no third piece.
EventUrlFields(url) ==
    LET hasQuery == contains(url, << "?" >>)
        path0 == IF hasQuery THEN str_split(url, "?")[1] ELSE url
        url_query == IF hasQuery THEN PyStr(Prefix(str_split(url, "?")[2], UrlCap))
                     ELSE PyNone
        path1 == IF startswith(path0, HTTP)
                 THEN << "/" >> \o str_join(<< "/" >>, From(str_split(path0, "/"), 3))
                 ELSE path0
        isHttp == startswith(url, HTTP)
        pieces == str_split(url, "/")
    IN [ raised |-> isHttp /\ Len(pieces) < 3,
         url_path |-> PyStr(Prefix(path1, UrlCap)),
         url_query |-> url_query,
         hostname |-> IF isHttp /\ Len(pieces) >= 3
                      THEN PyStr(Prefix(pieces[3], HostnameCap)) ELSE PyNone ]

\* ---------------------------------------------------- the fields of a Session
LowerCaseLetters == << "a", "b", "c", "d", "e", "f", "g", "h", "i", "j", "k", "l", "m", "n", "o", "p", "q", "r", "s", "t", "u", "v", "w", "x", "y", "z" >>
UpperCaseLetters == << "A", "B", "C", "D", "E", "F", "G", "H", "I", "J", "K", "L", "M", "N", "O", "P", "Q", "R", "S", "T", "U", "V", "W", "X", "Y", "Z" >>

\* str.lower() and str.upper() on the ASCII letters.
lower(text) ==
    [ i \in 1..Len(text) |->
        IF \E k \in 1..Len(UpperCaseLetters) : UpperCaseLetters[k] = text[i]
        THEN LowerCaseLetters[CHOOSE k \in 1..Len(UpperCaseLetters) : UpperCaseLetters[k] = text[i]]
        ELSE text[i] ]

upper(text) ==
    [ i \in 1..Len(text) |->
        IF \E k \in 1..Len(LowerCaseLetters) : LowerCaseLetters[k] = text[i]
        THEN UpperCaseLetters[CHOOSE k \in 1..Len(LowerCaseLetters) : LowerCaseLetters[k] = text[i]]
        ELSE text[i] ]

UNKNOWN == << "U", "n", "k", "n", "o", "w", "n" >>

\* dict.get(key, default) for a key that is missing (None) or holds a text.
GetOr(field, default) == IF field = None THEN default ELSE Get(field)

\* bool(dict.get(key)): the key is there and its text is not empty.
Truthy(field) == field # None /\ Get(field) # <<>>

\* parse_user_agent_info, the browser: the first signature found in the
\* lowercased name, else the lowercased name.
BrowserOf(browser) ==
    IF contains(browser, << "c", "h", "r", "o", "m", "e" >>) THEN << "c", "h", "r", "o", "m", "e" >>
    ELSE IF contains(browser, << "e", "d", "g", "e" >>) THEN << "e", "d", "g", "e", "-", "c", "h", "r", "o", "m", "i", "u", "m" >>
    ELSE IF contains(browser, << "f", "i", "r", "e", "f", "o", "x" >>) THEN << "f", "i", "r", "e", "f", "o", "x" >>
    ELSE IF contains(browser, << "o", "p", "e", "r", "a" >>) THEN << "o", "p", "e", "r", "a" >>
    ELSE IF contains(browser, << "m", "o", "b", "i", "l", "e", " ", "s", "a", "f", "a", "r", "i" >>) THEN << "i", "o", "s" >>
    ELSE IF contains(browser, << "s", "a", "f", "a", "r", "i" >>) THEN << "s", "a", "f", "a", "r", "i" >>
    ELSE IF contains(browser, << "y", "a", "n", "d", "e", "x" >>) THEN << "y", "a", "n", "d", "e", "x", "b", "r", "o", "w", "s", "e", "r" >>
    ELSE IF contains(browser, << "s", "a", "m", "s", "u", "n", "g" >>) THEN << "s", "a", "m", "s", "u", "n", "g" >>
    ELSE IF contains(browser, << "g", "o", "o", "g", "l", "e", " ", "s", "e", "a", "r", "c", "h", " ", "a", "p", "p" >>) THEN << "c", "h", "r", "o", "m", "i", "u", "m", "-", "w", "e", "b", "v", "i", "e", "w" >>
    ELSE IF contains(browser, << "s", "i", "l", "k" >>) THEN << "s", "i", "l", "k" >>
    ELSE browser

\* parse_user_agent_info, the operating system, with the detailed name for
\* Windows.
OsOf(os_info, os_detail_info) ==
    IF contains(os_info, << "l", "i", "n", "u", "x" >>) \/ contains(os_info, << "u", "b", "u", "n", "t", "u" >>) THEN << "L", "i", "n", "u", "x" >>
    ELSE IF contains(os_info, << "c", "h", "r", "o", "m", "e" >>) THEN << "C", "h", "r", "o", "m", "e", " ", "O", "S" >>
    ELSE IF contains(os_info, << "w", "i", "n", "d", "o", "w", "s" >>)
         THEN (IF contains(os_detail_info, << "w", "i", "n", "d", "o", "w", "s", " ", "7" >>) THEN << "W", "i", "n", "d", "o", "w", "s", " ", "7" >>
               ELSE IF contains(os_detail_info, << "w", "i", "n", "d", "o", "w", "s", " ", "8", ".", "1" >>) THEN << "W", "i", "n", "d", "o", "w", "s", " ", "8", ".", "1" >>
               ELSE IF contains(os_detail_info, << "w", "i", "n", "d", "o", "w", "s", " ", "1", "0" >>) \/ contains(os_detail_info, << "w", "i", "n", "d", "o", "w", "s", " ", "1", "1" >>)
                    THEN << "W", "i", "n", "d", "o", "w", "s", " ", "1", "0" >>
               ELSE os_info)
    ELSE IF contains(os_info, << "i", "o", "s" >>) THEN << "i", "O", "S" >>
    ELSE IF contains(os_info, << "m", "a", "c" >>) THEN << "M", "a", "c", " ", "O", "S" >>
    ELSE IF contains(os_info, << "a", "n", "d", "r", "o", "i", "d" >>) THEN << "A", "n", "d", "r", "o", "i", "d", " ", "O", "S" >>
    ELSE os_info

\* parse_user_agent_info, the device.
DeviceOf(device) ==
    IF contains(device, << "d", "e", "s", "k", "t", "o", "p" >>) THEN << "d", "e", "s", "k", "t", "o", "p" >>
    ELSE IF contains(device, << "t", "a", "b", "l", "e", "t" >>) THEN << "t", "a", "b", "l", "e", "t" >>
    ELSE IF contains(device, << "s", "m", "a", "r", "t", "p", "h", "o", "n", "e" >>) \/ contains(device, << "p", "h", "a", "b", "l", "e", "t" >>) THEN << "m", "o", "b", "i", "l", "e" >>
    ELSE device

\* The column widths of the Session row.
UserAgentCap == 20
CountryCap == 2
RegionCap == 20
CityCap == 50
ScreenCap == 11
LanguageCap == 35

\* parse_user_agent_info(visit_data)
parse_user_agent_info(visit_data) ==
    [ browser |-> Prefix(BrowserOf(lower(GetOr(visit_data.browserName, UNKNOWN))), UserAgentCap),
      os |-> Prefix(OsOf(lower(GetOr(visit_data.operatingSystemName, UNKNOWN)),
                         lower(GetOr(visit_data.operatingSystem, UNKNOWN))), UserAgentCap),
      device |-> Prefix(DeviceOf(lower(GetOr(visit_data.deviceType, UNKNOWN))), UserAgentCap) ]

\* The cut made behind the removal of the NUL characters.
CutOrNoneAfterNulRemoval(field, cap) ==
    IF Truthy(field) THEN PyStr(Prefix(str_replace(Get(field), NUL, <<>>), cap)) ELSE PyNone

\* x[:cap] if visit_data.get(key) else None
CutOrNone(field, cap) ==
    IF Truthy(field) THEN PyStr(Prefix(Get(field), cap)) ELSE PyNone

\* create_session_data: the textual columns of the row, as values and as the
\* SQL literals of the values list.
SessionTextFields(visit_data) ==
    LET ua_info == parse_user_agent_info(visit_data)
        row == [ browser |-> PyStr(ua_info.browser),
                 os |-> PyStr(ua_info.os),
                 device |-> PyStr(ua_info.device),
                 screen |-> CutOrNone(visit_data.resolution, ScreenCap),
                 language |-> CutOrNone(visit_data.languageCode, LanguageCap),
                 country |-> IF Truthy(visit_data.countryCode)
                             THEN PyStr(Prefix(upper(Get(visit_data.countryCode)), CountryCap))
                             ELSE PyNone,
                 region |-> CutOrNone(visit_data.regionCode, RegionCap),
                 city |-> CutOrNone(visit_data.city, CityCap) ]
    IN [ raised |-> FALSE,
         values |-> row,
         literals |-> [ f \in DOMAIN row |-> safe_sql_value(row[f]) ] ]

\* x[:500] if x else x
CutIfTruthy(value, cap) ==
    IF value.type = "str" /\ value.text # <<>> THEN PyStr(Prefix(value.text, cap)) ELSE value

\* extract_base_domain(url): base is what tldextract.extract returns, None when
\* it raises.
extract_base_domain(base) ==
    IF base = None THEN PyNone
    ELSE PyStr(Get(base).domain \o << "." >> \o Get(base).suffix)

\* create_website_event_data: the textual columns of the row, as values and as
\* the SQL literals of the values list.  visit_data.referrer is None when there
\* is no referrerUrl, else what urlparse and tldextract make of it.
EventTextFields(action, visit_data) ==
    LET url == GetOr(action.url, <<>>)
        u == EventUrlFields(url)
        hasReferrer == visit_data.referrer # None
        parsed_url == Get(visit_data.referrer)
        referrer_domain == IF hasReferrer THEN extract_base_domain(parsed_url.base) ELSE PyNone
        referrer_path == IF hasReferrer THEN PyStr(parsed_url.path) ELSE PyStr(<< "/" >>)
        referrer_query == IF hasReferrer /\ parsed_url.query # <<>>
                          THEN PyStr(<< "?" >> \o parsed_url.query) ELSE PyStr(<<>>)
        page_title == IF Truthy(action.pageTitle) \/ Truthy(action.title)
                      THEN PyStr(Prefix(GetOr(action.pageTitle, GetOr(action.title, <<>>)), UrlCap))
                      ELSE PyNone
        row == [ url_path |-> u.url_path,
                 url_query |-> u.url_query,
                 referrer_path |-> CutIfTruthy(referrer_path, UrlCap),
                 referrer_query |-> CutIfTruthy(referrer_query, UrlCap),
                 referrer_domain |-> CutIfTruthy(referrer_domain, UrlCap),
                 page_title |-> page_title,
                 hostname |-> u.hostname ]
    IN [ raised |-> u.raised,
         values |-> row,
         literals |-> [ f \in DOMAIN row |-> safe_sql_value(row[f]) ] ]

\* ------------------------------------------------ calls of the pure functions
Texts(alphabet, n) == UNION { [1..k -> alphabet] : k \in 0..n }

SqlValues ==
    { PyNone, PyBool(TRUE), PyBool(FALSE), PyUuid(<< "u", "1" >>) }
    \cup { PyInt(n) : n \in 0..MaxInt }
    \cup { PyStr(t) : t \in Texts({ "a", QUOTE, NUL }, MaxTextLen) }

\* The action urls: relative, or with scheme and host.
Urls ==
    { prefix \o t : prefix \in { <<>>, HTTP \o << ":", "/", "/", "h" >> },
                    t \in Texts({ "/", "?", "q" }, MaxUrlLen) }

\* A visit record without textual fields and an action record without fields.
BlankVisit ==
    [ browserName |-> None, operatingSystemName |-> None, operatingSystem |-> None,
      deviceType |-> None, resolution |-> None, languageCode |-> None,
      countryCode |-> None, regionCode |-> None, city |-> None, referrer |-> None ]

BlankAction == [ url |-> None, pageTitle |-> None, title |-> None ]

BlankReferrer == [ path |-> <<>>, query |-> <<>>, base |-> None ]

SessionFields == { "browser", "os", "device", "screen", "language", "country",
                   "region", "city" }
EventFields == { "url_path", "url_query", "referrer_path", "referrer_query",
                 "referrer_domain", "page_title", "hostname" }

\* The column width of a field.
Cap(field) ==
    CASE field \in { "browser", "os", "device" } -> UserAgentCap
      [] field = "screen" -> ScreenCap
      [] field = "language" -> LanguageCap
      [] field = "country" -> CountryCap
      [] field = "region" -> RegionCap
      [] field = "city" -> CityCap
      [] field = "hostname" -> HostnameCap
      [] OTHER -> UrlCap

\* The visit record whose field is made from the text input.
VisitWith(field, input) ==
    CASE field = "browser" -> [BlankVisit EXCEPT !.browserName = Some(input)]
      [] field = "os" -> [BlankVisit EXCEPT !.operatingSystemName = Some(input)]
      [] field = "device" -> [BlankVisit EXCEPT !.deviceType = Some(input)]
      [] field = "screen" -> [BlankVisit EXCEPT !.resolution = Some(input)]
      [] field = "language" -> [BlankVisit EXCEPT !.languageCode = Some(input)]
      [] field = "country" -> [BlankVisit EXCEPT !.countryCode = Some(input)]
      [] field = "region" -> [BlankVisit EXCEPT !.regionCode = Some(input)]
      [] field = "city" -> [BlankVisit EXCEPT !.city = Some(input)]
      [] field = "referrer_path" ->
           [BlankVisit EXCEPT !.referrer = Some([BlankReferrer EXCEPT !.path = input])]
      [] field = "referrer_query" ->
           [BlankVisit EXCEPT !.referrer = Some([BlankReferrer EXCEPT !.query = input])]
      [] field = "referrer_domain" ->
           [BlankVisit EXCEPT !.referrer =
               Some([BlankReferrer EXCEPT
                       !.base = Some([domain |-> input, suffix |-> << "c", "o", "m" >>])])]
      [] OTHER -> BlankVisit

\* The action record whose field is made from the text input.
ActionWith(field, input) ==
    CASE field = "url_path" -> [BlankAction EXCEPT !.url = Some(<< "/" >> \o input)]
      [] field = "url_query" -> [BlankAction EXCEPT !.url = Some(<< "/", "p", "?" >> \o input)]
      [] field = "hostname" ->
           [BlankAction EXCEPT !.url = Some(HTTP \o << ":", "/", "/" >> \o input \o << "/", "p" >>)]
      [] field = "page_title" -> [BlankAction EXCEPT !.pageTitle = Some(input)]
      [] OTHER -> BlankAction

\* n times the letter x, with the text special written over it from position p.
Filled(n, p, special) ==
    [ i \in 1..n |-> IF p <= i /\ i < p + Len(special) THEN special[(i - p) + 1] ELSE "x" ]

Specials ==
    { <<>>, << "C", "h", "r", "o", "m", "e" >>, << "T", "a", "b", "l", "e", "t" >> }

\* n times the letter x, with chosen characters at the start, at the cap and
\* behind the cap.
Marked(n, cap, first, last, behind) ==
    [ i \in 1..n |-> IF i = cap + 1 THEN behind
                     ELSE IF i = cap THEN last
                     ELSE IF i = 1 THEN first
                     ELSE "x" ]

Marks == { "x", "X", QUOTE, NUL }

\* Texts around the column width cap: a little shorter, as long, a little
\* longer; with a user-agent signature, or with quotes, NULs and capitals, at
\* the start, at the cap and behind it.
TextsAround(cap) ==
    LET lengths == { m \in (cap - 1)..(cap + MaxOver) : m >= 1 }
    IN { Filled(n, p, special) : n \in lengths, p \in { 1, cap, cap + 1 },
                                 special \in Specials }
       \cup { Marked(n, cap, first, last, behind) :
                n \in lengths, first \in Marks, last \in Marks, behind \in Marks }

NoSubject == [field |-> "", input |-> <<>>]

\* A call that has not returned; subject names the field under study and the
\* text it is made from.
Pending(fn, arguments, subject) ==
    [fn |-> fn, args |-> arguments, subject |-> subject,
     returned |-> FALSE, result |-> <<>>]

Calls ==
    { Pending("safe_sql_value", << v >>, NoSubject) : v \in SqlValues }
    \cup { Pending("create_website_event_data",
                   << [BlankAction EXCEPT !.url = Some(u)], BlankVisit >>,
                   [field |-> "url", input |-> u]) : u \in Urls }
    \cup UNION { { Pending("create_session_data", << VisitWith(f, t) >>,
                           [field |-> f, input |-> t]) : t \in TextsAround(Cap(f)) }
                 : f \in SessionFields }
    \cup UNION { { Pending("create_website_event_data",
                           << ActionWith(f, t), VisitWith(f, t) >>,
                           [field |-> f, input |-> t]) : t \in TextsAround(Cap(f)) }
                 : f \in EventFields }

\* No run is going on while a function is called on its own.
NoRun ==
    /\ website_id = ValidWebsiteId
    /\ start_date = Some(1)
    /\ end_date = Some(1)
    /\ batch_size = 1
    /\ days_per_request = 1
    /\ InitRun

run_vars == << website_id, start_date, end_date, batch_size, days_per_request,
               pc, exit_code, total_days, session_mapping, total_events,
               total_days_processed, failed_days, session_batch, event_batch,
               current_date, batch_end_date, data, file_opened, out, uuid4_calls,
               requests, appended, fetched, visits_seen, last_visit >>

Call_safe_sql_value ==
    /\ call.fn = "safe_sql_value"
    /\ ~call.returned
    /\ call' = [call EXCEPT !.returned = TRUE, !.result = safe_sql_value(call.args[1])]
    /\ UNCHANGED run_vars

Call_create_session_data ==
    /\ call.fn = "create_session_data"
    /\ ~call.returned
    /\ call' = [call EXCEPT !.returned = TRUE, !.result = SessionTextFields(call.args[1])]
    /\ UNCHANGED run_vars

Call_create_website_event_data ==
    /\ call.fn = "create_website_event_data"
    /\ ~call.returned
    /\ call' = [call EXCEPT !.returned = TRUE,
                            !.result = EventTextFields(call.args[1], call.args[2])]
    /\ UNCHANGED run_vars

InitCalls == NoRun /\ call \in Calls

NextCalls ==
    \/ Call_safe_sql_value
    \/ Call_create_session_data
    \/ Call_create_website_event_data

SpecCalls == InitCalls /\ [][NextCalls]_vars

\* ------------------------------------------- reading an emitted SQL literal
\* The positions of the single quotes of a text, and how many of them lie at
\* or before position i.
QuotePositions(text) == { i \in 1..Len(text) : text[i] = QUOTE }

\* Single quotes occur only in adjacent pairs: the 1st with the 2nd, the 3rd
\* with the 4th, and so on.
InPairs(text) ==
    LET quotes == QuotePositions(text)
        Rank(i) == Cardinality({ q \in quotes : q <= i })
    IN \A i \in quotes :
           IF Rank(i) % 2 = 1
           THEN i < Len(text) /\ text[i + 1] = QUOTE
           ELSE i > 1 /\ text[i - 1] = QUOTE

\* The text a body of paired quotes stands for: one quote for each pair.
Unescape(text) ==
    LET quotes == QuotePositions(text)
        Rank(i) == Cardinality({ q \in quotes : q <= i })
        pairs == Cardinality(quotes) \div 2
        Kept(i) == text[i] # QUOTE \/ Rank(i) % 2 = 1
    IN [ k \in 1..(Len(text) - pairs) |->
           text[CHOOSE i \in k..Min(Len(text), k + pairs) :
                   Kept(i) /\ i - (Rank(i) \div 2) = k] ]

\* A text is one SQL string literal: a quote, a body of paired quotes and
\* other characters, a quote.
IsStringLiteral(text) ==
    /\ Len(text) >= 2
    /\ text[1] = QUOTE
    /\ text[Len(text)] = QUOTE
    /\ InPairs(SubSeq(text, 2, Len(text) - 1))

\* The value a string literal encodes.
Decode(literal) == Unescape(SubSeq(literal, 2, Len(literal) - 1))

WithoutNul(text) == SelectSeq(text, LAMBDA c : c # NUL)

Occurrences(text, c) == Cardinality({ i \in 1..Len(text) : text[i] = c })

\* ---------------------------------------------------------------- claim C11
\* C11: safe_sql_value applied to a boolean returns the unquoted text true for
\* a true value and false for a false value.
C11_BooleanGivesLowerCaseWord ==
    (call.fn = "safe_sql_value" /\ call.returned /\ call.args[1].type = "bool")
    => call.result = (IF call.args[1].bool THEN << "t", "r", "u", "e" >>
                      ELSE << "f", "a", "l", "s", "e" >>)

\* ---------------------------------------------------------------- claim C14
\* C14: for every string input, safe_sql_value returns a text that starts and
\* ends with a single quote, in which every single quote of the input appears
\* doubled and NUL characters are removed: between the delimiters single
\* quotes occur only in adjacent pairs, the result is one SQL string literal,
\* and it encodes the input without its NUL characters.
C14_StringBecomesOneLiteral ==
    (call.fn = "safe_sql_value" /\ call.returned /\ call.args[1].type = "str")
    => LET input == call.args[1].text
           body == SubSeq(call.result, 2, Len(call.result) - 1)
       IN /\ IsStringLiteral(call.result)
          /\ Occurrences(body, NUL) = 0
          /\ Occurrences(body, QUOTE) = 2 * Occurrences(input, QUOTE)
          /\ Decode(call.result) = WithoutNul(input)

\* A string with a quote, a NUL and a second quote has been sanitized.
C14_Witness ==
    /\ call.fn = "safe_sql_value"
    /\ call.returned
    /\ call.args[1] = PyStr(<< "a", QUOTE, NUL, QUOTE >>)
    /\ call.result = << QUOTE, "a", QUOTE, QUOTE, QUOTE, QUOTE, QUOTE >>

\* ---------------------------------------------------------------- claim C12
\* The text behind the first occurrence of the character c.
AfterFirst(text, c) ==
    LET first == CHOOSE i \in 1..Len(text) :
                     text[i] = c /\ \A j \in 1..(i - 1) : text[j] # c
    IN SubSeq(text, first + 1, Len(text))

\* C12: for an action URL that contains at least one '?', the Event row's
\* url_query is the whole substring after the first '?' (capped at 500
\* characters), further '?' characters included; for a URL without '?',
\* url_query is null.
C12_UrlQueryIsAllAfterFirstMark ==
    (/\ call.fn = "create_website_event_data"
     /\ call.returned
     /\ call.subject.field = "url"
     /\ ~call.result.raised)
    => LET url == call.subject.input
           rest == AfterFirst(url, "?")
       IN IF Occurrences(url, "?") > 0
          THEN call.result.values.url_query
                   = PyStr(SubSeq(rest, 1, Min(Len(rest), 500)))
          ELSE call.result.values.url_query = PyNone

\* ---------------------------------------------------------------- claim C13
\* The value of a field before its cut, for the visit or action record made
\* from the text input.
PreCutValue(field, input) ==
    CASE field = "browser" -> BrowserOf(lower(input))
      [] field = "os" -> OsOf(lower(input), lower(UNKNOWN))
      [] field = "device" -> DeviceOf(lower(input))
      [] field = "country" -> upper(input)
      [] field = "url_path" -> << "/" >> \o input
      [] field = "referrer_query" -> << "?" >> \o input
      [] field = "referrer_domain" -> input \o << ".", "c", "o", "m" >>
      [] OTHER -> input

\* A row has been built for the study of one textual field.
FieldCallReturned ==
    /\ call.fn \in { "create_session_data", "create_website_event_data" }
    /\ call.returned
    /\ call.subject.field \in SessionFields \cup EventFields
    /\ ~call.result.raised

\* C13 as stated: for any input string longer than the cap, the value encoded
\* by the emitted SQL literal has exactly cap characters.
C13_LongInputGivesExactlyCap ==
    (FieldCallReturned /\ Len(call.subject.input) > Cap(call.subject.field))
    => LET literal == call.result.literals[call.subject.field]
       IN /\ IsStringLiteral(literal)
          /\ Len(Decode(literal)) = Cap(call.subject.field)

\* C13: every textual field of a Session or Event row is cut to its column cap
\* before it is sanitized: the emitted SQL literal encodes the first cap
\* characters of the field's value (for browser, os and device the normalised
\* value) without their NUL characters; the encoded value never has more than
\* cap characters, and it has exactly cap characters when the field's value is
\* longer than the cap and has no NUL among its first cap characters.
C13_CutBeforeSanitized ==
    FieldCallReturned
    => LET field == call.subject.field
           value == PreCutValue(field, call.subject.input)
           cut == SubSeq(value, 1, Min(Len(value), Cap(field)))
           literal == call.result.literals[field]
       IN /\ IsStringLiteral(literal)
          /\ Decode(literal) = WithoutNul(cut)
          /\ Len(Decode(literal)) <= Cap(field)
          /\ (Len(value) > Cap(field) /\ Occurrences(cut, NUL) = 0)
             => Len(Decode(literal)) = Cap(field)

\* A city one character longer than its cap, with a quote as its last kept
\* character and a NUL at its start, has been cut and then sanitized: the cap
\* less the NUL, the quote doubled, the two delimiters.
C13_Witness ==
    /\ call.fn = "create_session_data"
    /\ call.returned
    /\ call.subject.field = "city"
    /\ Len(call.subject.input) = CityCap + 1
    /\ call.subject.input[1] = NUL
    /\ call.subject.input[CityCap] = QUOTE
    /\ Len(call.result.literals.city) = (CityCap - 1) + 1 + 2

====
